---- MODULE Spec2Model ----
(***************************************************************************)
(* A model of schema_validation: content-addressed construction of the     *)
(* Schema graph (core.py, class Schema), validator dispatch and the        *)
(* validators' validate methods (core.py, Validator subclasses), and       *)
(* hash_schema (utils.py).                                                 *)
(*                                                                         *)
(* JSON-compatible Python values are one-field records, the field naming   *)
(* the Python type:                                                        *)
(*   [i |-> n]   int n              [f |-> h]   float h/2                  *)
(*   [b |-> x]   bool               [n |-> "None"]  None                   *)
(*   [s |-> q]   str: the sequence q of its '/'-free pieces, so that       *)
(*               "#/definitions/Obj" is <<"#", "definitions", "Obj">>       *)
(*   [l |-> q]   list               [d |-> q]   dict: the sequence of its  *)
(*               <<key, value>> items in insertion order                   *)
(***************************************************************************)
EXTENDS Integers, Sequences, FiniteSets, TLC

VARIABLES doc, pc, exc, nodes, registry, seen, stack, last, hin, hout

vars == <<doc, pc, exc, nodes, registry, seen, stack, last, hin, hout>>

----------------------------------------------------------------------------
(* Python values *)

PInt(k) == [i |-> k]
PFlt(h) == [f |-> h]
PBool(x) == [b |-> x]
None == [n |-> "None"]
PStr(x) == [s |-> <<x>>]
PPath(q) == [s |-> q]
PList(q) == [l |-> q]
PDict(q) == [d |-> q]

IsInt(v) == "i" \in DOMAIN v
IsFloat(v) == "f" \in DOMAIN v
IsBool(v) == "b" \in DOMAIN v
IsNone(v) == "n" \in DOMAIN v
IsStr(v) == "s" \in DOMAIN v
IsList(v) == "l" \in DOMAIN v
IsDict(v) == "d" \in DOMAIN v

Range(q) == {q[j] : j \in DOMAIN q}

\* the element of a set of one element
The(S) == CHOOSE x \in S : TRUE

\* dict operations: key in D, D[key], D.get(key, default), D.keys(), D.values()
Keys(D) == {D.d[j][1] : j \in DOMAIN D.d}
HasKey(D, k) == k \in Keys(D)
Item(D, k) == D.d[CHOOSE j \in DOMAIN D.d : D.d[j][1] = k][2]
Get(D, k, default) == IF HasKey(D, k) THEN Item(D, k) ELSE default
Values(D) == [j \in DOMAIN D.d |-> D.d[j][2]]
KeyList(D) == [j \in DOMAIN D.d |-> PStr(D.d[j][1])]

\* {key: val for key, val in D.items() if key in keys}
Restrict(D, keys) == PDict(SelectSeq(D.d, LAMBDA it : it[1] \in keys))

\* the value of a number in halves; True and False count as 1 and 0, as
\* Python's bool is a subclass of int
Halves(v) == IF IsInt(v) THEN 2 * v.i
             ELSE IF IsFloat(v) THEN v.f
             ELSE IF v.b THEN 2 ELSE 0

\* len(str): the pieces and the '/' between them
RECURSIVE PiecesLen(_)
PiecesLen(q) == IF q = <<>> THEN 0 ELSE Len(Head(q)) + PiecesLen(Tail(q))

StrLen(v) == PiecesLen(v.s) + Len(v.s) - 1

\* Python ==: numbers and bools compare by value, everything else by type
\* and content (lists and dicts elementwise, dicts regardless of item order)
RECURSIVE PyEq(_, _)
PyEq(x, y) ==
    LET num(v) == IsInt(v) \/ IsFloat(v) \/ IsBool(v) IN
    IF num(x) /\ num(y) THEN Halves(x) = Halves(y)
    ELSE IF IsList(x) /\ IsList(y)
      THEN /\ Len(x.l) = Len(y.l)
           /\ \A j \in DOMAIN x.l : PyEq(x.l[j], y.l[j])
    ELSE IF IsDict(x) /\ IsDict(y)
      THEN /\ Keys(x) = Keys(y)
           /\ \A k \in Keys(x) : PyEq(Item(x, k), Item(y, k))
    ELSE x = y

----------------------------------------------------------------------------
(* utils.py *)

\* every key that occurs in a document of the model, in the order of
\* Python's str comparison (by code point)
KeyOrder ==
    <<"$ref", "$schema", "A", "B", "Chart", "FacetedChart", "LayeredChart",
      "Obj", "TopLevel", "a", "additionalProperties", "age", "allOf",
      "anyOf", "b", "blah", "c", "default", "definitions", "description",
      "enum", "exclusiveMaximum", "exclusiveMinimum", "foo", "format",
      "items", "key", "maxItems", "maxLength", "maximum", "mimimum",
      "minItems", "minLength", "minimum", "name", "not", "numItems",
      "oneOf", "pattern", "patternProperties", "properties", "required",
      "title", "type", "val">>

\* sorted(D.items()): the items by ascending key
SortedItems(D) ==
    LET ks == SelectSeq(KeyOrder, LAMBDA k : HasKey(D, k))
    IN  [j \in DOMAIN ks |-> <<ks[j], Item(D, ks[j])>>]

Tok(x) == [p |-> x]

RECURSIVE dumps(_, _)
RECURSIVE DumpItems(_, _)
RECURSIVE DumpElems(_, _)

\* json.dumps(obj, sort_keys=sort_keys) as a sequence of tokens: a scalar is
\* its own token (JSON text tells 1, 1.0, "1", true and null apart)
dumps(obj, sort_keys) ==
    IF IsDict(obj)
      THEN <<Tok("{")>>
           \o DumpItems(IF sort_keys THEN SortedItems(obj) ELSE obj.d, sort_keys)
           \o <<Tok("}")>>
    ELSE IF IsList(obj)
      THEN <<Tok("[")>> \o DumpElems(obj.l, sort_keys) \o <<Tok("]")>>
    ELSE <<obj>>

DumpItems(items, sort_keys) ==
    IF items = <<>> THEN <<>>
    ELSE <<[k |-> Head(items)[1]]>> \o dumps(Head(items)[2], sort_keys)
         \o (IF Len(items) > 1 THEN <<Tok(",")>> ELSE <<>>)
         \o DumpItems(Tail(items), sort_keys)

DumpElems(elems, sort_keys) ==
    IF elems = <<>> THEN <<>>
    ELSE dumps(Head(elems), sort_keys)
         \o (IF Len(elems) > 1 THEN <<Tok(",")>> ELSE <<>>)
         \o DumpElems(Tail(elems), sort_keys)

\* hashlib.sha256(s.encode()).hexdigest(): a collision-free digest, which the
\* model writes as the digested text
sha256(text) == [sha |-> text]

unsorted_hash(schema) == sha256(dumps(schema, FALSE))

hash_schema(schema) == sha256(dumps(schema, TRUE))

----------------------------------------------------------------------------
(* core.py: the Validator classes *)

\* Validator.__subclasses__(): the subclasses in the order of their class
\* statements
ValidatorClasses ==
    <<"ObjectValidator", "ArrayValidator", "NumberTypeValidator",
      "IntegerTypeValidator", "StringTypeValidator", "NullTypeValidator",
      "BooleanTypeValidator", "EnumValidator", "MultiTypeValidator",
      "RefValidator", "AnyOfValidator", "OneOfValidator", "AllOfValidator",
      "NotValidator">>

recognized_keys(cls) ==
    CASE cls = "ObjectValidator" ->
           {"type", "properties", "additionalProperties", "patternProperties",
            "required"}
      [] cls = "ArrayValidator" ->
           {"type", "items", "minItems", "maxItems", "numItems"}
      [] cls = "NumberTypeValidator" ->
           {"type", "minimum", "maximum", "default", "exclusiveMinimum",
            "exclusiveMaximum"}
      [] cls = "IntegerTypeValidator" ->
           {"type", "mimimum", "maximum", "default", "exclusiveMinimum",
            "exclusiveMaximum"}
      [] cls = "StringTypeValidator" ->
           {"type", "pattern", "format", "minLength", "maxLength", "default"}
      [] cls = "NullTypeValidator" -> {"type"}
      [] cls = "BooleanTypeValidator" -> {"type", "default"}
      [] cls = "EnumValidator" -> {"enum", "default"}
      [] cls = "MultiTypeValidator" -> {"type", "minimum", "maximum"}
      [] cls = "RefValidator" -> {"$ref"}
      [] cls = "AnyOfValidator" -> {"anyOf"}
      [] cls = "OneOfValidator" -> {"oneOf"}
      [] cls = "AllOfValidator" -> {"allOf"}
      [] cls = "NotValidator" -> {"not"}

\* cls._matches(schema), schema a dict
matches(cls, schema) ==
    LET type == Get(schema, "type", None) IN
    CASE cls = "ObjectValidator" ->
           \/ type = PStr("object")
           \/ HasKey(schema, "properties")
           \/ HasKey(schema, "additionalProperties")
      [] cls = "ArrayValidator" -> type = PStr("array") \/ HasKey(schema, "items")
      [] cls = "NumberTypeValidator" -> type = PStr("number")
      [] cls = "IntegerTypeValidator" -> type = PStr("integer")
      [] cls = "StringTypeValidator" -> type = PStr("string")
      [] cls = "NullTypeValidator" -> type = PStr("null")
      [] cls = "BooleanTypeValidator" -> type = PStr("boolean")
      [] cls = "EnumValidator" -> HasKey(schema, "enum")
      [] cls = "MultiTypeValidator" -> IsList(type)
      [] cls = "RefValidator" -> HasKey(schema, "$ref")
      [] cls = "AnyOfValidator" -> HasKey(schema, "anyOf")
      [] cls = "OneOfValidator" -> HasKey(schema, "oneOf")
      [] cls = "AllOfValidator" -> HasKey(schema, "allOf")
      [] cls = "NotValidator" -> HasKey(schema, "not")

\* Validator.__init__: a validator holds its class and the part of the
\* fragment under its recognized keys
Validator(cls, schema) == [cls |-> cls, schema |-> schema]

first_match_only(schema) ==
    LET validator_classes ==
          SelectSeq(ValidatorClasses, LAMBDA cls : matches(cls, schema))
    IN  IF validator_classes = <<>> THEN <<>>
        ELSE <<Validator(validator_classes[1],
                         Restrict(schema, recognized_keys(validator_classes[1])))>>

\* Validator._initialize_validators(obj), obj.schema a dict: one validator
\* of every class that matches, in the order of the classes
initialize_validators(schema) ==
    LET validator_classes ==
          SelectSeq(ValidatorClasses, LAMBDA cls : matches(cls, schema))
    IN  [j \in DOMAIN validator_classes |->
           Validator(validator_classes[j],
                     Restrict(schema, recognized_keys(validator_classes[j])))]

\* what a call or a property read gives: a value, or the exception raised
Ok(v) == [ok |-> TRUE, val |-> v]
Raise(e) == [ok |-> FALSE, exc |-> e]

\* a missing key is passed over and the walk goes on from where it stands
RECURSIVE swallow_missing(_, _)
swallow_missing(refschema, keys) ==
    IF keys = <<>> THEN Ok(refschema)
    ELSE IF IsDict(refschema) /\ HasKey(refschema, Head(keys))
      THEN swallow_missing(Item(refschema, Head(keys)), Tail(keys))
    ELSE Ok(refschema)

\* refschema = refschema[key] for each key in turn
RECURSIVE Walk(_, _)
Walk(refschema, keys) ==
    IF keys = <<>> THEN Ok(refschema)
    ELSE IF IsDict(refschema)
      THEN IF HasKey(refschema, Head(keys))
             THEN Walk(Item(refschema, Head(keys)), Tail(keys))
             ELSE Raise("KeyError")
    ELSE Raise("TypeError")

\* the iteration of a value by itertools.chain or a for loop: the elements
\* of a list, the keys of a dict (no document of the model puts a str there)
Iterate(v) ==
    IF IsList(v) THEN Ok(v.l)
    ELSE IF IsDict(v) THEN Ok(KeyList(v))
    ELSE Raise("TypeError")

\* keys = self.schema['$ref'].split('/') and the walk from the root by keys[1:]
RefTarget(refschema) == IF refschema.ok THEN Ok(<<refschema.val>>) ELSE refschema

RefValidator_children(ref, root) ==
    IF ~IsStr(ref) THEN Raise("AttributeError")
    ELSE IF Head(ref.s) # "#" THEN Raise("ValueError")
    ELSE RefTarget(Walk(root, Tail(ref.s)))

\* the children property of a validator v of a node of the document root:
\* the child fragments it contributes
validator_children(v, root) ==
    CASE v.cls = "ObjectValidator" ->
           LET properties == Get(v.schema, "properties", PDict(<<>>))
               patternProperties == Get(v.schema, "patternProperties", PDict(<<>>))
               addprops == Get(v.schema, "additionalProperties", None)
           IN  IF ~IsDict(properties) \/ ~IsDict(patternProperties)
                 THEN Raise("AttributeError")
                 ELSE Ok(Values(properties) \o Values(patternProperties)
                         \o (IF IsDict(addprops) THEN <<addprops>> ELSE <<>>))
      [] v.cls = "ArrayValidator" ->
           IF HasKey(v.schema, "items") THEN Ok(<<Item(v.schema, "items")>>)
           ELSE Ok(<<>>)
      [] v.cls = "RefValidator" -> RefValidator_children(Item(v.schema, "$ref"), root)
      [] v.cls = "AnyOfValidator" -> Iterate(Item(v.schema, "anyOf"))
      [] v.cls = "OneOfValidator" -> Iterate(Item(v.schema, "oneOf"))
      [] v.cls = "AllOfValidator" -> Iterate(Item(v.schema, "allOf"))
      [] v.cls = "NotValidator" -> Ok(<<Item(v.schema, "not")>>)
      [] OTHER -> Ok(<<>>)

\* itertools.chain(*(v.children for v in self.validators)): every
\* validator's children are read, from the first validator on, before any
\* of them is used; found holds those read so far
RECURSIVE chain_children(_, _, _)
RECURSIVE chain_more(_, _, _, _)
chain_children(validators, root, found) ==
    IF validators = <<>> THEN Ok(found)
    ELSE The({chain_more(first, Tail(validators), root, found) :
                first \in {validator_children(Head(validators), root)}})

chain_more(first, validators, root, found) ==
    IF ~first.ok THEN first
    ELSE chain_children(validators, root, found \o first.val)

----------------------------------------------------------------------------
(* core.py: class Schema.  A graph G is [nodes, registry]: nodes is the     *)
(* sequence of the Schema objects created so far, each [schema, validators, *)
(* parents] with parents a sequence of indices into nodes (node 1 is the    *)
(* root), and registry maps a hash to the index of a node.                  *)

NoRegistry == [k \in {} |-> 0]

\* Schema(schema, root=root) for a node that is not the root: lines 61-64
NewSchema(schema) ==
    [schema |-> schema,
     validators |-> initialize_validators(schema),
     parents |-> <<>>]

Graph(ns, reg) == [nodes |-> ns, registry |-> reg]

Failed(e, G) == [ok |-> FALSE, exc |-> e, G |-> G]

\* the node is created and the registry is left as it was
create_unregistered(G, key, node) == Graph(Append(G.nodes, node), G.registry)

\* self.registry[key] = Schema(schema, root=self.root)
Register(G, key, node) ==
    Graph(Append(G.nodes, node), G.registry @@ (key :> Len(G.nodes) + 1))

\* obj.parents.append(self) whether or not self is there already
always_append_parent(G, obj, self) ==
    [ok |-> TRUE, obj |-> obj,
     G |-> Graph([G.nodes EXCEPT ![obj].parents = Append(@, self)], G.registry)]

\* if self not in obj.parents: obj.parents.append(self); return obj
AddParent(G, obj, self) ==
    [ok |-> TRUE, obj |-> obj,
     G |-> IF self \in Range(G.nodes[obj].parents) THEN G
           ELSE Graph([G.nodes EXCEPT ![obj].parents = Append(@, self)],
                      G.registry)]

always_create_child(G, self, schema) ==
    IF ~IsDict(schema) THEN Failed("AttributeError", G)
    ELSE AddParent(Graph(Append(G.nodes, NewSchema(schema)),
                         [h \in DOMAIN G.registry \cup {hash_schema(schema)} |->
                            IF h = hash_schema(schema) THEN Len(G.nodes) + 1
                            ELSE G.registry[h]]),
                   Len(G.nodes) + 1, self)

\* self.initialize_child(schema): the node registered for the fragment,
\* created and registered if there is none, with self among its parents;
\* _matches calls schema.get, which only a dict has
initialize_child(G, self, schema) ==
    IF hash_schema(schema) \in DOMAIN G.registry
      THEN AddParent(G, G.registry[hash_schema(schema)], self)
    ELSE IF ~IsDict(schema) THEN Failed("AttributeError", G)
    ELSE AddParent(Register(G, hash_schema(schema), NewSchema(schema)),
                   Len(G.nodes) + 1, self)

\* [self.initialize_child(schema) for schema in schemas]; objs holds the
\* nodes of the fragments done so far
RECURSIVE initialize_children(_, _, _, _)
RECURSIVE initialize_more(_, _, _, _)
initialize_children(G, self, schemas, objs) ==
    IF schemas = <<>> THEN [ok |-> TRUE, objs |-> objs, G |-> G]
    ELSE The({initialize_more(first, self, Tail(schemas), objs) :
                first \in {initialize_child(G, self, Head(schemas))}})

initialize_more(first, self, schemas, objs) ==
    IF ~first.ok THEN first
    ELSE initialize_children(first.G, self, schemas, Append(objs, first.obj))

ChildNodes(G, self, schemas) ==
    IF ~schemas.ok THEN Failed(schemas.exc, G)
    ELSE initialize_children(G, self, schemas.val, <<>>)

\* the children property of the node self: the nodes of the child fragments
\* of its validators
children(G, self) ==
    The({ChildNodes(G, self, schemas) :
           schemas \in {chain_children(G.nodes[self].validators,
                                       G.nodes[1].schema, <<>>)}})

----------------------------------------------------------------------------
(* core.py: validation.  A validate call gives "ok" when it returns and the *)
(* name of the exception when it raises.                                    *)

SchemaValidationError == "SchemaValidationError"

\* utils.isnumeric(obj): a number that is not a bool
isnumeric(obj) == (IsInt(obj) \/ IsFloat(obj)) /\ ~IsBool(obj)

\* what an instance of a Validator subclass has: the attributes set by
\* __init__ and the names defined in the classes
ValidatorAttributes ==
    {"schema", "parent", "recognized_keys", "_initialize_validators",
     "init_child", "_matches", "children", "validate", "name"}

\* the outcome of reading self.<name>
getattr(name) == IF name \in ValidatorAttributes THEN "ok" ELSE "AttributeError"

\* the checks that NumberTypeValidator.validate and
\* IntegerTypeValidator.validate make of the four bounds, on the keys the
\* validator holds
BoundsCheck(schema, obj) ==
    IF HasKey(schema, "minimum") /\ Halves(obj) < Halves(Item(schema, "minimum"))
      THEN SchemaValidationError
    ELSE IF HasKey(schema, "maximum") /\ Halves(obj) > Halves(Item(schema, "maximum"))
      THEN SchemaValidationError
    ELSE IF HasKey(schema, "exclusiveMinimum")
            /\ Halves(obj) <= Halves(Item(schema, "exclusiveMinimum"))
      THEN SchemaValidationError
    ELSE IF HasKey(schema, "exclusiveMaximum")
            /\ Halves(obj) >= Halves(Item(schema, "exclusiveMaximum"))
      THEN SchemaValidationError
    ELSE "ok"

ObjectValidator_validate(schema, obj) ==
    IF ~IsDict(obj) THEN SchemaValidationError
    ELSE getattr("get")

ArrayValidator_validate(schema, obj) ==
    IF ~IsList(obj) THEN SchemaValidationError
    ELSE IF HasKey(schema, "minItems") /\ Len(obj.l) < Item(schema, "minItems").i
      THEN SchemaValidationError
    ELSE IF HasKey(schema, "maxItems") /\ Len(obj.l) > Item(schema, "maxItems").i
      THEN SchemaValidationError
    ELSE IF HasKey(schema, "numItems") /\ Len(obj.l) # Item(schema, "numItems").i
      THEN SchemaValidationError
    ELSE "ok"

NumberTypeValidator_validate(schema, obj) ==
    IF ~isnumeric(obj) THEN SchemaValidationError
    ELSE BoundsCheck(schema, obj)

IntegerTypeValidator_validate(schema, obj) ==
    IF ~isnumeric(obj) THEN SchemaValidationError
    ELSE IF Halves(obj) % 2 # 0 THEN SchemaValidationError
    ELSE BoundsCheck(schema, obj)

StringTypeValidator_validate(schema, obj) ==
    IF ~IsStr(obj) THEN SchemaValidationError
    ELSE IF HasKey(schema, "minLength") /\ StrLen(obj) < Item(schema, "minLength").i
      THEN SchemaValidationError
    ELSE IF HasKey(schema, "maxLength") /\ StrLen(obj) > Item(schema, "maxLength").i
      THEN SchemaValidationError
    ELSE "ok"

NullTypeValidator_validate(schema, obj) ==
    IF ~IsNone(obj) THEN SchemaValidationError ELSE "ok"

BooleanTypeValidator_validate(schema, obj) ==
    IF ~IsBool(obj) THEN SchemaValidationError ELSE "ok"

\* obj not in self.schema['enum']: membership by Python ==
EnumValidator_validate(schema, obj) ==
    LET enum == Item(schema, "enum") IN
    IF ~IsList(enum) THEN "TypeError"
    ELSE IF ~\E j \in DOMAIN enum.l : PyEq(obj, enum.l[j])
      THEN SchemaValidationError
    ELSE "ok"

MultiTypeValidator_validate(schema, obj) == "NotImplementedError"

\* self.make_child(...): reading the attribute raises before the argument
\* (self.children[0]) is evaluated
RefValidator_validate(schema, obj) == getattr("make_child")

\* each child's self.make_child(child).validate(obj) raises inside the try,
\* the bare except swallows it, and the loop runs to its end
AnyOfValidator_validate(schema, obj) ==
    LET kids == Iterate(Item(schema, "anyOf")) IN
    IF ~kids.ok THEN kids.exc
    ELSE IF \E j \in DOMAIN kids.val : getattr("make_child") = "ok"
      THEN "ok"
    ELSE "ok"

\* count is incremented only in the else of the try
OneOfValidator_validate(schema, obj) ==
    LET kids == Iterate(Item(schema, "oneOf"))
        count == Cardinality({j \in DOMAIN kids.val : getattr("make_child") = "ok"})
    IN  IF ~kids.ok THEN kids.exc
        ELSE IF count # 1 THEN SchemaValidationError
        ELSE "ok"

AllOfValidator_validate(schema, obj) ==
    LET kids == Iterate(Item(schema, "allOf")) IN
    IF ~kids.ok THEN kids.exc
    ELSE IF kids.val = <<>> THEN "ok"
    ELSE getattr("make_child")

\* except SchemaValidationError does not catch the AttributeError
NotValidator_validate(schema, obj) == getattr("make_child")

\* validator.validate(obj)
Validator_validate(v, obj) ==
    CASE v.cls = "ObjectValidator" -> ObjectValidator_validate(v.schema, obj)
      [] v.cls = "ArrayValidator" -> ArrayValidator_validate(v.schema, obj)
      [] v.cls = "NumberTypeValidator" -> NumberTypeValidator_validate(v.schema, obj)
      [] v.cls = "IntegerTypeValidator" -> IntegerTypeValidator_validate(v.schema, obj)
      [] v.cls = "StringTypeValidator" -> StringTypeValidator_validate(v.schema, obj)
      [] v.cls = "NullTypeValidator" -> NullTypeValidator_validate(v.schema, obj)
      [] v.cls = "BooleanTypeValidator" -> BooleanTypeValidator_validate(v.schema, obj)
      [] v.cls = "EnumValidator" -> EnumValidator_validate(v.schema, obj)
      [] v.cls = "MultiTypeValidator" -> MultiTypeValidator_validate(v.schema, obj)
      [] v.cls = "RefValidator" -> RefValidator_validate(v.schema, obj)
      [] v.cls = "AnyOfValidator" -> AnyOfValidator_validate(v.schema, obj)
      [] v.cls = "OneOfValidator" -> OneOfValidator_validate(v.schema, obj)
      [] v.cls = "AllOfValidator" -> AllOfValidator_validate(v.schema, obj)
      [] v.cls = "NotValidator" -> NotValidator_validate(v.schema, obj)

RECURSIVE run_all_validators(_, _, _, _)
run_all_validators(validators, obj, j, result) ==
    IF j > Len(validators)
      THEN [result |-> result, ran |-> [k \in 1 .. Len(validators) |-> k]]
    ELSE run_all_validators(validators, obj, j + 1,
           IF result = "ok" THEN Validator_validate(validators[j], obj)
           ELSE result)

\* the loop of Schema.validate from its j-th validator on, result being the
\* outcome of validator j - 1: the outcome of the loop and the validators
\* that were run
RECURSIVE run_validators(_, _, _, _)
run_validators(validators, obj, j, result) ==
    IF result # "ok" \/ j > Len(validators)
      THEN [result |-> result, ran |-> [k \in 1 .. j - 1 |-> k]]
    ELSE run_validators(validators, obj, j + 1,
                        Validator_validate(validators[j], obj))

\* Schema.validate(obj) on a node
Schema_validate(node, obj) == run_validators(node.validators, obj, 1, "ok")

----------------------------------------------------------------------------
(* The schema documents the model builds *)

Type(x) == PDict(<< <<"type", PStr(x)>> >>)
Ref(q) == PDict(<< <<"$ref", PPath(q)>> >>)

\* tests/test_core.py: the definition_schema fixture
definition_schema ==
    PDict(<< <<"$ref", PPath(<<"#", "definitions", "TopLevel">>)>>,
             <<"definitions", PDict(<<
                <<"TopLevel", PDict(<< <<"anyOf", PList(<<
                    Ref(<<"#", "definitions", "Chart">>),
                    Ref(<<"#", "definitions", "LayeredChart">>),
                    Ref(<<"#", "definitions", "FacetedChart">>) >>)>> >>)>>,
                <<"Chart", PDict(<< <<"type", PStr("object")>>,
                    <<"properties", PDict(<< <<"a", Type("string")>> >>)>> >>)>>,
                <<"LayeredChart", PDict(<< <<"type", PStr("object")>>,
                    <<"properties", PDict(<< <<"a", Type("integer")>> >>)>> >>)>>,
                <<"FacetedChart", PDict(<< <<"type", PStr("object")>>,
                    <<"properties", PDict(<< <<"a", Type("number")>> >>)>> >>)>>
             >>)>> >>)

\* tests/test_core.py: the circular_schema fixture
circular_schema ==
    PDict(<< <<"$ref", PPath(<<"#", "definitions", "Obj">>)>>,
             <<"definitions", PDict(<<
                <<"Obj", PDict(<< <<"anyOf", PList(<<
                    Type("integer"),
                    PDict(<< <<"type", PStr("array")>>,
                             <<"items", Ref(<<"#", "definitions", "Obj">>)>> >>)
                >>)>> >>)>> >>)>> >>)

\* a definition whose only anyOf alternative refers back to it
self_ref_schema ==
    PDict(<< <<"$ref", PPath(<<"#", "definitions", "A">>)>>,
             <<"definitions", PDict(<<
                <<"A", PDict(<< <<"anyOf", PList(<<
                    Ref(<<"#", "definitions", "A">>) >>)>> >>)>> >>)>> >>)

\* two definitions that refer to each other, and a reference to the root
mutual_ref_schema ==
    PDict(<< <<"$ref", PPath(<<"#", "definitions", "A">>)>>,
             <<"definitions", PDict(<<
                <<"A", PDict(<< <<"not", Ref(<<"#", "definitions", "B">>)>> >>)>>,
                <<"B", PDict(<< <<"allOf", PList(<<
                    Ref(<<"#", "definitions", "A">>), Ref(<<"#">>) >>)>> >>)>>
             >>)>> >>)

\* the same fragment at several paths, once with its keys in another order
dedup_schema ==
    PDict(<< <<"properties", PDict(<<
                <<"a", PDict(<< <<"type", PStr("string")>>,
                                <<"enum", PList(<<PStr("a"), PStr("b")>>)>> >>)>>,
                <<"b", PDict(<< <<"enum", PList(<<PStr("a"), PStr("b")>>)>>,
                                <<"type", PStr("string")>> >>)>>,
                <<"c", PDict(<< <<"type", PStr("array")>>,
                                <<"items", PDict(<<
                                    <<"enum", PList(<<PStr("a"), PStr("b")>>)>>,
                                    <<"type", PStr("string")>> >>)>> >>)>> >>)>>,
             <<"additionalProperties", Type("integer")>>,
             <<"items", Type("integer")>> >>)

\* tests/test_core.py: generate_simple_schemas
multi_type_schema ==
    PDict(<< <<"type", PList(<<PStr("integer"), PStr("number"), PStr("string")>>)>> >>)
properties_schema ==
    PDict(<< <<"properties", PDict(<< <<"foo", Type("string")>> >>)>> >>)
additional_schema == PDict(<< <<"additionalProperties", Type("string")>> >>)
enum_string_schema ==
    PDict(<< <<"enum", PList(<<PStr("hello")>>)>>, <<"type", PStr("string")>> >>)
enum_integer_schema ==
    PDict(<< <<"enum", PList(<<PInt(0), PInt(1)>>)>>, <<"type", PStr("integer")>> >>)
enum_boolean_schema ==
    PDict(<< <<"enum", PList(<<PBool(TRUE)>>)>>, <<"type", PStr("boolean")>> >>)
enum_mixed_schema ==
    PDict(<< <<"enum", PList(<<PStr("hello"), None, PInt(2)>>)>> >>)
description_schema == PDict(<< <<"description", PStr("foo")>> >>)
empty_schema == PDict(<<>>)
ref_blah_schema ==
    PDict(<< <<"$ref", PPath(<<"#", "definitions", "blah">>)>>,
             <<"definitions", PDict(<< <<"blah", Type("string")>> >>)>> >>)
anyof_schema ==
    PDict(<< <<"anyOf", PList(<<Type("integer"), Type("string")>>)>> >>)

\* schema['$schema'] = ...; schema['description'] = ... (test_simple_schemas)
WithMeta(schema) ==
    PDict(SelectSeq(schema.d, LAMBDA it : it[1] \notin {"$schema", "description"})
          \o << <<"$schema", PPath(<<"http:", "", "foo.com", "schema.json", "#">>)>>,
                <<"description", PStr("this is a description")>> >>)

\* tests/test_core.py: schemas_for_validation
array_any_schema ==
    PDict(<< <<"type", PStr("array")>>, <<"items", PDict(<<>>)>> >>)
array_number_schema ==
    PDict(<< <<"type", PStr("array")>>, <<"items", Type("number")>> >>)
enum_values_schema ==
    PDict(<< <<"enum", PList(<<PInt(5), PStr("hello"), None, PBool(FALSE)>>)>> >>)
string_enum_schema ==
    PDict(<< <<"type", PStr("string")>>,
             <<"enum", PList(<<PStr("a"), PStr("b"), PStr("c")>>)>> >>)
number_range_schema ==
    PDict(<< <<"type", PStr("number")>>, <<"minimum", PInt(0)>>,
             <<"maximum", PInt(1)>> >>)
number_exclusive_schema ==
    PDict(<< <<"type", PStr("number")>>, <<"exclusiveMinimum", PInt(0)>>,
             <<"exclusiveMaximum", PInt(1)>> >>)
string_length_schema ==
    PDict(<< <<"type", PStr("string")>>, <<"minLength", PInt(2)>>,
             <<"maxLength", PInt(5)>> >>)

\* documents for the validators the tests leave out
integer_minimum_schema ==
    PDict(<< <<"type", PStr("integer")>>, <<"minimum", PInt(2)>> >>)
number_minimum_schema ==
    PDict(<< <<"type", PStr("number")>>, <<"minimum", PInt(2)>> >>)
integer_range_schema ==
    PDict(<< <<"type", PStr("integer")>>, <<"maximum", PInt(3)>>,
             <<"exclusiveMinimum", PInt(0)>>, <<"exclusiveMaximum", PInt(3)>> >>)
oneof_schema ==
    PDict(<< <<"oneOf", PList(<<Type("number"), Type("integer")>>)>> >>)
object_required_schema ==
    PDict(<< <<"type", PStr("object")>>,
             <<"properties", PDict(<< <<"a", Type("string")>> >>)>>,
             <<"required", PList(<<PStr("a")>>)>> >>)
object_closed_schema ==
    PDict(<< <<"type", PStr("object")>>,
             <<"properties", PDict(<< <<"a", Type("string")>> >>)>>,
             <<"additionalProperties", PBool(FALSE)>> >>)
object_additional_schema ==
    PDict(<< <<"properties", PDict(<< <<"a", Type("string")>> >>)>>,
             <<"additionalProperties", Type("integer")>> >>)
array_bounds_schema ==
    PDict(<< <<"type", PStr("array")>>, <<"minItems", PInt(1)>>,
             <<"maxItems", PInt(2)>>, <<"items", Type("integer")>> >>)
array_num_schema ==
    PDict(<< <<"items", Type("string")>>, <<"numItems", PInt(2)>> >>)
allof_not_schema ==
    PDict(<< <<"allOf", PList(<<Type("number")>>)>>, <<"not", Type("null")>> >>)

\* a reference that does not start at '#', a reference to a key that is not
\* there, and a child fragment that is not a dict
foreign_ref_schema == Ref(<<"http:", "", "foo.com", "schema.json">>)
dangling_ref_schema ==
    PDict(<< <<"anyOf", PList(<<Type("integer"),
                                Ref(<<"#", "definitions", "blah">>)>>)>>,
             <<"definitions", PDict(<< <<"foo", Type("string")>> >>)>> >>)
tuple_items_schema ==
    PDict(<< <<"items", PList(<<Type("integer"), Type("string")>>)>> >>)

BaseDocuments ==
    {definition_schema, circular_schema, self_ref_schema, mutual_ref_schema,
     dedup_schema, multi_type_schema, properties_schema, additional_schema,
     enum_string_schema, enum_integer_schema, enum_boolean_schema,
     enum_mixed_schema, description_schema, empty_schema, ref_blah_schema,
     anyof_schema, array_any_schema, array_number_schema, enum_values_schema,
     string_enum_schema, number_range_schema, number_exclusive_schema,
     string_length_schema, integer_minimum_schema, number_minimum_schema,
     integer_range_schema, oneof_schema, object_required_schema,
     object_closed_schema, object_additional_schema, array_bounds_schema,
     array_num_schema, allof_not_schema, foreign_ref_schema,
     dangling_ref_schema, tuple_items_schema,
     Type("integer"), Type("number"), Type("string"), Type("null"),
     Type("boolean"), Type("array"), Type("object")}

\* test_simple_schemas builds each of its schemas again with the metadata keys
Documents ==
    BaseDocuments
    \cup {WithMeta(schema) : schema \in
            {Type("integer"), Type("object"), enum_string_schema, empty_schema,
             description_schema, anyof_schema, ref_blah_schema,
             properties_schema, multi_type_schema}}

----------------------------------------------------------------------------
(* The values handed to validate *)

MaxInt == 5
MaxHalf == 5
MaxItems == 2

Scalars ==
    {PInt(k) : k \in -1 .. MaxInt} \cup {PFlt(h) : h \in 0 .. MaxHalf}
    \cup {PBool(TRUE), PBool(FALSE), None}
    \cup {PStr(x) : x \in {"", "a", "x", "hi", "hello", "blah", "123456"}}

Elements == {PInt(1), PInt(2), PFlt(4), PStr("hello"), None}

Lists == {PList(q) : q \in UNION {[1 .. k -> Elements] : k \in 0 .. MaxItems}}

Dicts ==
    {PDict(<<>>)}
    \cup {PDict(<< <<"a", v>> >>) : v \in {PStr("x"), PInt(1)}}
    \cup {PDict(<< <<"b", v>> >>) : v \in {PStr("x"), PInt(1)}}
    \cup {PDict(<< <<"a", v>>, <<"b", w>> >>) :
            v \in {PStr("x"), PInt(1)}, w \in {PStr("x"), PInt(1)}}

InputValues == Scalars \cup Lists \cup Dicts

----------------------------------------------------------------------------
(* Construction of the root, and the calls made on the finished graph *)

Top == stack[Len(stack)]

NoCall == [op |-> "none"]

Init ==
    /\ doc \in Documents
    /\ pc = "new"
    /\ exc = "none"
    /\ nodes = <<>>
    /\ registry = NoRegistry
    /\ seen = {}
    /\ stack = <<>>
    /\ last = NoCall
    /\ hin = <<>>
    /\ hout = <<>>

\* Schema(doc): Schema.__init__ of the root up to the call of crawl(self)
SchemaInit ==
    /\ pc = "new"
    /\ nodes' = <<[schema |-> doc,
                   validators |-> initialize_validators(doc),
                   parents |-> <<>>]>>
    /\ registry' = (hash_schema(doc) :> 1)
    /\ seen' = {}
    /\ stack' = <<[obj |-> 1, kids |-> <<>>, j |-> 0]>>
    /\ pc' = "crawl"
    /\ UNCHANGED <<doc, exc, last, hin, hout>>

\* crawl(obj) reads obj.children, the list its for loop runs over; an
\* exception leaves Schema(doc) and no root is returned
CrawlChildrenGot(r) ==
    /\ nodes' = r.G.nodes
    /\ registry' = r.G.registry
    /\ IF r.ok
         THEN /\ stack' = [stack EXCEPT ![Len(stack)] =
                             [obj |-> Top.obj, kids |-> r.objs, j |-> 1]]
              /\ UNCHANGED <<pc, exc>>
         ELSE /\ stack' = <<>>
              /\ pc' = "error"
              /\ exc' = r.exc

CrawlChildren ==
    /\ pc = "crawl"
    /\ Top.j = 0
    /\ \E r \in {children(Graph(nodes, registry), Top.obj)} : CrawlChildrenGot(r)
    /\ UNCHANGED <<doc, seen, last, hin, hout>>

skip_seen_check(hsh, seenset) == TRUE

\* hsh not in seen
not_seen(hsh, seenset) == hsh \notin seenset

\* one turn of the for loop of crawl(obj)
CrawlChild ==
    /\ pc = "crawl"
    /\ Top.j \in 1 .. Len(Top.kids)
    /\ LET child == Top.kids[Top.j]
           hsh == hash_schema(nodes[child].schema)
           next == [stack EXCEPT ![Len(stack)].j = Top.j + 1]
       IN  IF not_seen(hsh, seen)
             THEN /\ seen' = seen \cup {hsh}
                  /\ stack' = Append(next, [obj |-> child, kids |-> <<>>, j |-> 0])
             ELSE /\ stack' = next
                  /\ UNCHANGED seen
    /\ UNCHANGED <<doc, pc, exc, nodes, registry, last, hin, hout>>

\* the for loop of crawl(obj) is over: crawl returns, and when it is
\* crawl(self) that returns, so does Schema(doc)
CrawlReturn ==
    /\ pc = "crawl"
    /\ Top.j > Len(Top.kids)
    /\ stack' = SubSeq(stack, 1, Len(stack) - 1)
    /\ pc' = IF Len(stack) = 1 THEN "built" ELSE "crawl"
    /\ UNCHANGED <<doc, exc, nodes, registry, seen, last, hin, hout>>

\* node.validate(value) on a node of the finished graph; last holds the call
\* and its outcome until the caller is done with them
Validate(n, value) ==
    /\ pc = "built"
    /\ last = NoCall
    /\ last' = [op |-> "validate", node |-> n, value |-> value]
                @@ Schema_validate(nodes[n], value)
    /\ UNCHANGED <<doc, pc, exc, nodes, registry, seen, stack, hin, hout>>

\* a read of node.children on a node of the finished graph
ReadChildrenGot(n, r) ==
    /\ nodes' = r.G.nodes
    /\ registry' = r.G.registry
    /\ last' = [op |-> "children", node |-> n,
                result |-> IF r.ok THEN "ok" ELSE r.exc,
                objs |-> IF r.ok THEN r.objs ELSE <<>>]

ReadChildren(n) ==
    /\ pc = "built"
    /\ last = NoCall
    /\ \E r \in {children(Graph(nodes, registry), n)} : ReadChildrenGot(n, r)
    /\ UNCHANGED <<doc, pc, exc, seen, stack, hin, hout>>

\* the caller is done with the outcome of its last call
Return ==
    /\ pc = "built"
    /\ last # NoCall
    /\ last' = NoCall
    /\ UNCHANGED <<doc, pc, exc, nodes, registry, seen, stack, hin, hout>>

Construct == SchemaInit \/ CrawlChildren \/ CrawlChild \/ CrawlReturn

Next ==
    \/ SchemaInit
    \/ CrawlChildren
    \/ CrawlChild
    \/ CrawlReturn
    \/ \E n \in DOMAIN nodes, value \in InputValues : Validate(n, value)
    \/ \E n \in DOMAIN nodes : ReadChildren(n)
    \/ Return

Spec == Init /\ [][Next]_vars

\* Schema(doc) is one call that runs to its end: every step of it is taken
LiveSpec == Spec /\ WF_vars(Construct)

----------------------------------------------------------------------------
(* hash_schema on a fragment and on a copy of it with the keys of its dicts *)
(* in another order (tests/test_utils.py: scramble, test_hash_schema)       *)

\* the orders n items can be put in
Orders(n) == {p \in [1 .. n -> 1 .. n] : \A j, k \in 1 .. n : p[j] = p[k] => j = k}

RECURSIVE scramble(_)
RECURSIVE ScrambleEach(_)
RECURSIVE ScrambleItems(_)

\* the values scramble(val) can return: every dict at every depth has its
\* items in some order
scramble(val) ==
    IF IsDict(val)
      THEN {PDict([j \in DOMAIN L |-> L[p[j]]]) :
              L \in ScrambleItems(val.d), p \in Orders(Len(val.d))}
    ELSE IF IsList(val) THEN {PList(q) : q \in ScrambleEach(val.l)}
    ELSE {val}

ScrambleEach(q) ==
    IF q = <<>> THEN {<<>>}
    ELSE {<<x>> \o rest : x \in scramble(Head(q)), rest \in ScrambleEach(Tail(q))}

ScrambleItems(items) ==
    IF items = <<>> THEN {<<>>}
    ELSE {<< <<Head(items)[1], x>> >> \o rest :
            x \in scramble(Head(items)[2]), rest \in ScrambleItems(Tail(items))}

\* tests/test_utils.py: generate_schemas
nested_fragment ==
    PDict(<< <<"a", PDict(<< <<"key", PList(<<PInt(1), PInt(2), PInt(3)>>)>>,
                            <<"val", PList(<<PStr("a"), PStr("b"), PStr("c")>>)>> >>)>>,
             <<"b", PList(<<PDict(<<>>),
                            PDict(<< <<"name", PStr("bob")>>, <<"age", PInt(31)>> >>)>>)>>,
             <<"c", PList(<<PInt(1), PInt(2), PInt(3)>>)>> >>)

HashFragments ==
    {PInt(4), PFlt(5), PStr("foo"), None,
     PDict(<< <<"a", PInt(1)>>, <<"b", PInt(2)>> >>),
     PList(<<PInt(1), PInt(2), PInt(3)>>),
     nested_fragment, circular_schema, object_required_schema,
     integer_range_schema, number_range_schema, array_bounds_schema,
     enum_string_schema}

HashInit ==
    /\ hin \in {<<schema, schema>> : schema \in HashFragments}
    /\ hout = <<>>
    /\ doc = empty_schema
    /\ pc = "hash"
    /\ exc = "none"
    /\ nodes = <<>>
    /\ registry = NoRegistry
    /\ seen = {}
    /\ stack = <<>>
    /\ last = NoCall

\* scramble(schema): another copy of the fragment
Scramble ==
    /\ pc = "hash"
    /\ \E copy \in scramble(hin[1]) : hin' = <<hin[1], copy>>
    /\ hout' = <<>>
    /\ UNCHANGED <<doc, pc, exc, nodes, registry, seen, stack, last>>

\* hsh = hash_schema(schema) and hash_schema(scramble(schema))
HashBoth ==
    /\ pc = "hash"
    /\ hout = <<>>
    /\ hout' = <<hash_schema(hin[1]), hash_schema(hin[2])>>
    /\ UNCHANGED <<doc, pc, exc, nodes, registry, seen, stack, last, hin>>

HashNext == Scramble \/ HashBoth

HashSpec == HashInit /\ [][HashNext]_vars

----------------------------------------------------------------------------
(* Properties *)

ClassesOf(n) == [j \in DOMAIN nodes[n].validators |-> nodes[n].validators[j].cls]

\* the child fragments the validators of node n contribute
ChildFragments(n) == chain_children(nodes[n].validators, doc, <<>>)

\* node.validate(value) returns, for the node of the fragment
Accepts(fragment, value) ==
    /\ hash_schema(fragment) \in DOMAIN registry
    /\ Schema_validate(nodes[registry[hash_schema(fragment)]], value).result = "ok"

Validated == last.op = "validate"

\* C1: once Schema(document) has returned, no two Schema nodes wrap fragments
\* of equal hash, every node is the one registered for its hash, and for
\* every node N and every child fragment c of N's validators the node
\* registered for c has N among its parents.
OneNodePerHash ==
    pc = "built" =>
      /\ Cardinality({hash_schema(nodes[n].schema) : n \in DOMAIN nodes})
           = Len(nodes)
      /\ \A n \in DOMAIN nodes :
           /\ hash_schema(nodes[n].schema) \in DOMAIN registry
           /\ registry[hash_schema(nodes[n].schema)] = n
           /\ ChildFragments(n).ok
           /\ \A c \in Range(ChildFragments(n).val) :
                /\ hash_schema(c) \in DOMAIN registry
                /\ n \in Range(nodes[registry[hash_schema(c)]].parents)

\* a fragment that occurs at three paths, under two parents and with its
\* keys in two orders, has become one node with both parents
SharedNodeBuilt ==
    /\ pc = "built"
    /\ doc = dedup_schema
    /\ \E n \in DOMAIN nodes :
         /\ nodes[n].schema = Item(Item(doc, "properties"), "a")
         /\ Len(nodes[n].parents) = 2

RECURSIVE SubDicts(_)
\* the dicts inside a value, the value included: the fragments a document
\* can contribute
SubDicts(v) ==
    IF IsDict(v) THEN {v} \cup UNION {SubDicts(v.d[j][2]) : j \in DOMAIN v.d}
    ELSE IF IsList(v) THEN UNION {SubDicts(v.l[j]) : j \in DOMAIN v.l}
    ELSE {}

DistinctFragments == Cardinality({hash_schema(f) : f \in SubDicts(doc)})

Finished == pc = "built" \/ pc = "error"

\* (a validate call leaves the graph as it was)
GraphBounded ==
    ~Validated =>
    /\ Len(nodes) <= DistinctFragments
    /\ Cardinality(DOMAIN registry) <= DistinctFragments
    /\ Len(stack) <= DistinctFragments + 1
    /\ \A n \in DOMAIN nodes : Len(nodes[n].parents) <= DistinctFragments

\* C2: the construction of the root comes to an end for every document,
\* also one whose definitions refer to themselves or to each other, and at
\* every point of it there is at most one node and one registry entry per
\* distinct fragment of the document, no parents list is longer than that,
\* and the recursion of crawl is no deeper.
ConstructionTerminates == []GraphBounded /\ <>Finished

\* the construction of a definition that refers to itself has returned
SelfReferenceBuilt ==
    /\ pc = "built"
    /\ doc = self_ref_schema
    /\ \E m, n \in DOMAIN nodes :
         /\ m # n
         /\ m \in Range(nodes[n].parents)
         /\ n \in Range(nodes[m].parents)

\* C3: hash_schema gives a fragment and a copy of it whose dicts, at any
\* depth, have their keys in another order the same hash.
HashIgnoresKeyOrder == hout # <<>> => hout[1] = hout[2]

\* both hashes are taken of a copy of the nested fragment that is written
\* in another order
ScrambledCopyHashed ==
    /\ hout # <<>>
    /\ hin[1] = nested_fragment
    /\ dumps(hin[2], FALSE) # dumps(hin[1], FALSE)
    /\ Item(hin[2], "a") # Item(hin[1], "a")

StripMeta(schema) ==
    PDict(SelectSeq(schema.d, LAMBDA it : it[1] \notin {"$schema", "description"}))

MatchingClasses(schema) ==
    {cls \in Range(ValidatorClasses) : matches(cls, schema)}

\* the table of the claim, each fragment with and without the metadata keys
ExpectedClasses(schema, classes) ==
    doc \in {schema, WithMeta(schema)} => ClassesOf(1) = classes

\* C4: the validators of a node are one of each class whose match predicate
\* accepts the node's fragment and of no other class; {type: integer} gets
\* Integer only, {enum: [hello], type: string} Enum and String, {} and
\* {description: ...} none, {anyOf: [...]} AnyOf only; and the classes are
\* those of the fragment without its '$schema' and 'description' keys.
ValidatorsAreTheMatches ==
    pc \in {"crawl", "built"} =>
      /\ \A n \in DOMAIN nodes :
           /\ Range(ClassesOf(n)) = MatchingClasses(nodes[n].schema)
           /\ Len(ClassesOf(n)) = Cardinality(MatchingClasses(nodes[n].schema))
           /\ Range(ClassesOf(n)) = MatchingClasses(StripMeta(nodes[n].schema))
      /\ ExpectedClasses(Type("integer"), <<"IntegerTypeValidator">>)
      /\ ExpectedClasses(enum_string_schema,
                         <<"StringTypeValidator", "EnumValidator">>)
      /\ ExpectedClasses(empty_schema, <<>>)
      /\ ExpectedClasses(description_schema, <<>>)
      /\ ExpectedClasses(anyof_schema, <<"AnyOfValidator">>)

\* a fragment with the metadata keys that two classes match has been built
TwoValidatorsWithMeta ==
    /\ pc = "built"
    /\ doc = WithMeta(enum_string_schema)
    /\ doc # enum_string_schema
    /\ Len(nodes[1].validators) = 2

\* the validators of the node of the last call that reject the value
Failing(vs) == {j \in DOMAIN vs : Validator_validate(vs[j], last.value) # "ok"}

FirstFailing(vs) == CHOOSE j \in Failing(vs) : \A k \in Failing(vs) : j <= k

\* C5: node.validate(value) returns iff every validator of the node accepts
\* the value; the validators run in their order at the node, and the call
\* raises what the first validator that rejects the value raises, with no
\* later validator run; {type: string, enum: [a, b, c]} rejects 2, 'blah'
\* and true and accepts 'a'.
ValidateIsConjunction ==
    Validated =>
      LET vs == nodes[last.node].validators IN
      /\ last.result = "ok" <=> Failing(vs) = {}
      /\ Failing(vs) = {} => last.ran = [j \in DOMAIN vs |-> j]
      /\ Failing(vs) # {} =>
           /\ last.ran = [j \in 1 .. FirstFailing(vs) |-> j]
           /\ last.result = Validator_validate(vs[FirstFailing(vs)], last.value)
      /\ doc = string_enum_schema /\ last.node = 1 =>
           /\ last.value \in {PInt(2), PStr("blah"), PBool(TRUE)}
                => last.result = SchemaValidationError
           /\ last.value = PStr("a") => last.result = "ok"

\* the first of two validators rejects the value and the second is not run
FirstFailureAborts ==
    /\ Validated
    /\ doc = string_enum_schema
    /\ last.value = PInt(2)
    /\ Len(nodes[last.node].validators) = 2
    /\ last.ran = <<1>>
    /\ last.result = SchemaValidationError

\* the last call is validate on a node whose validators are of these classes
ValidatedBy(classes) == Validated /\ ClassesOf(last.node) = classes

Fragment == nodes[last.node].schema

\* C6: a node with an AnyOf validator alone accepts a value iff the node of
\* at least one member of its anyOf list accepts it, and raises a
\* validation error when none does; anyOf [integer, string] accepts 5 and
\* 'hi' and rejects true.
AnyOfIsDisjunction ==
    ValidatedBy(<<"AnyOfValidator">>) =>
      LET members == Item(Fragment, "anyOf").l
          some == \E j \in DOMAIN members : Accepts(members[j], last.value)
      IN  /\ last.result = "ok" <=> some
          /\ ~some => last.result = SchemaValidationError
          /\ doc = anyof_schema /\ last.node = 1 =>
               /\ last.value \in {PInt(5), PStr("hi")} => last.result = "ok"
               /\ last.value = PBool(TRUE) => last.result = SchemaValidationError

\* C7: a node with a OneOf validator alone accepts a value iff the node of
\* exactly one member of its oneOf list accepts it, and raises a validation
\* error otherwise; oneOf [number, integer] rejects 5 and accepts 2.5.
OneOfIsExactlyOne ==
    ValidatedBy(<<"OneOfValidator">>) =>
      LET members == Item(Fragment, "oneOf").l
          count == Cardinality({j \in DOMAIN members :
                                  Accepts(members[j], last.value)})
      IN  /\ last.result = "ok" <=> count = 1
          /\ count # 1 => last.result = SchemaValidationError
          /\ doc = oneof_schema /\ last.node = 1 =>
               /\ last.value = PInt(5) => last.result = SchemaValidationError
               /\ last.value = PFlt(5) => last.result = "ok"

\* the length of the list meets minItems, maxItems and numItems
ItemCountAllowed(schema, value) ==
    /\ HasKey(schema, "minItems") => Len(value.l) >= Item(schema, "minItems").i
    /\ HasKey(schema, "maxItems") => Len(value.l) <= Item(schema, "maxItems").i
    /\ HasKey(schema, "numItems") => Len(value.l) = Item(schema, "numItems").i

\* C8: a node with an Array validator alone whose fragment has 'items'
\* accepts a value iff the value is a list, its length meets minItems,
\* maxItems and numItems, and the node of the items fragment accepts each of
\* its elements; {type: array, items: {type: number}} accepts [1, 2] and
\* rejects [2.0, 'hello'] and [1, null].
ArrayItemsValidated ==
    ValidatedBy(<<"ArrayValidator">>) /\ HasKey(Fragment, "items") =>
      /\ last.result = "ok" <=>
           /\ IsList(last.value)
           /\ ItemCountAllowed(Fragment, last.value)
           /\ \A j \in DOMAIN last.value.l :
                Accepts(Item(Fragment, "items"), last.value.l[j])
      /\ doc = array_number_schema /\ last.node = 1 =>
           /\ last.value = PList(<<PInt(1), PInt(2)>>) => last.result = "ok"
           /\ last.value \in {PList(<<PFlt(4), PStr("hello")>>),
                              PList(<<PInt(1), None>>)}
                => last.result = SchemaValidationError

\* the rule of the claim for one key of the value
KeyAllowed(schema, key, val) ==
    LET properties == Get(schema, "properties", PDict(<<>>)) IN
    IF HasKey(properties, key) THEN Accepts(Item(properties, key), val)
    ELSE IF ~HasKey(schema, "additionalProperties") THEN TRUE
    ELSE IF IsDict(Item(schema, "additionalProperties"))
      THEN Accepts(Item(schema, "additionalProperties"), val)
    ELSE Item(schema, "additionalProperties") # PBool(FALSE)

\* C9: a node with an Object validator alone accepts a value iff the value
\* is a dict, it has every key of 'required', and each of its keys passes:
\* by the node of its 'properties' entry if it has one, else by the node of
\* 'additionalProperties' if that is a schema, else never if
\* 'additionalProperties' is false and always if there is none;
\* {type: object, properties: {a: {type: string}}, required: [a]} accepts
\* {a: 'x'} and rejects {} with a validation error.
ObjectKeysValidated ==
    ValidatedBy(<<"ObjectValidator">>) =>
      /\ last.result = "ok" <=>
           /\ IsDict(last.value)
           /\ \A r \in Range(Get(Fragment, "required", PList(<<>>)).l) :
                HasKey(last.value, r.s[1])
           /\ \A key \in Keys(last.value) :
                KeyAllowed(Fragment, key, Item(last.value, key))
      /\ doc = object_required_schema /\ last.node = 1 =>
           /\ last.value = PDict(<< <<"a", PStr("x")>> >>) => last.result = "ok"
           /\ last.value = PDict(<<>>) => last.result = SchemaValidationError

\* the bounds of the fragment, as the claim reads them
WithinBounds(schema, value) ==
    /\ HasKey(schema, "minimum") => Halves(value) >= Halves(Item(schema, "minimum"))
    /\ HasKey(schema, "maximum") => Halves(value) <= Halves(Item(schema, "maximum"))
    /\ HasKey(schema, "exclusiveMinimum")
         => Halves(value) > Halves(Item(schema, "exclusiveMinimum"))
    /\ HasKey(schema, "exclusiveMaximum")
         => Halves(value) < Halves(Item(schema, "exclusiveMaximum"))

\* C10: a node with a Number validator alone, or an Integer validator alone,
\* accepts a value iff the value is an int or a float and no bool, it is
\* within the minimum, maximum, exclusiveMinimum and exclusiveMaximum of the
\* fragment, and, for Integer, it is its own truncation; so
\* {type: integer, minimum: m} rejects every integer below m.
NumericBoundsChecked ==
    (\/ ValidatedBy(<<"NumberTypeValidator">>)
     \/ ValidatedBy(<<"IntegerTypeValidator">>)) =>
      /\ last.result = "ok" <=>
           /\ IsInt(last.value) \/ IsFloat(last.value)
           /\ WithinBounds(Fragment, last.value)
           /\ ClassesOf(last.node) = <<"IntegerTypeValidator">>
                => Halves(last.value) % 2 = 0
      /\ last.result \in {"ok", SchemaValidationError}

\* equality of JSON values with no coercion between types: a bool equals
\* only the same bool, a number equals a number of the same value
RECURSIVE ExactEq(_, _)
ExactEq(x, y) ==
    LET num(v) == IsInt(v) \/ IsFloat(v) IN
    IF num(x) /\ num(y) THEN Halves(x) = Halves(y)
    ELSE IF IsList(x) /\ IsList(y)
      THEN /\ Len(x.l) = Len(y.l)
           /\ \A j \in DOMAIN x.l : ExactEq(x.l[j], y.l[j])
    ELSE IF IsDict(x) /\ IsDict(y)
      THEN /\ Keys(x) = Keys(y)
           /\ \A k \in Keys(x) : ExactEq(Item(x, k), Item(y, k))
    ELSE x = y

\* C11: a node with an Enum validator alone accepts a value iff the value
\* equals an element of the enum list with no coercion between types, so
\* that no bool is accepted for a 0 or 1 of the list and no number for a
\* false or true of it; enum [5, 'hello', null, false] accepts those four
\* values and rejects 2, 'blah' and true.
EnumIsExactMembership ==
    ValidatedBy(<<"EnumValidator">>) =>
      LET enum == Item(Fragment, "enum").l
          member == \E j \in DOMAIN enum : ExactEq(last.value, enum[j])
      IN  /\ last.result = "ok" <=> member
          /\ ~member => last.result = SchemaValidationError
          /\ (IsInt(last.value) \/ IsFloat(last.value))
               /\ (\A j \in DOMAIN enum : ~IsInt(enum[j]) /\ ~IsFloat(enum[j]))
               => last.result = SchemaValidationError

\* the '$ref' values of the Reference validators of node n
RefsOf(n) ==
    {Item(nodes[n].validators[j].schema, "$ref") :
        j \in {i \in DOMAIN nodes[n].validators :
                 nodes[n].validators[i].cls = "RefValidator"}}

\* every segment of the path is a key of the dict found at its step
RECURSIVE Present(_, _)
Present(fragment, segments) ==
    \/ segments = <<>>
    \/ /\ IsDict(fragment)
       /\ HasKey(fragment, Head(segments))
       /\ Present(Item(fragment, Head(segments)), Tail(segments))

\* the fragment the segments lead to
RECURSIVE Lookup(_, _)
Lookup(fragment, segments) ==
    IF segments = <<>> THEN fragment
    ELSE Lookup(Item(fragment, Head(segments)), Tail(segments))

\* the path begins with '#' and leads somewhere from the root document
ValidRef(ref) == IsStr(ref) /\ Head(ref.s) = "#" /\ Present(doc, Tail(ref.s))

\* the frames of crawl whose obj.children has been read
Expanded == {j \in DOMAIN stack : stack[j].j >= 1}

\* C12: wherever the construction has read the children of a node with a
\* Reference validator, the '$ref' begins with '#' and each of its segments
\* is a key present at its step, and the node of the fragment found by
\* looking the segments up from the root document (not from the node that
\* holds the '$ref') is among the children, the only child when the
\* Reference validator is alone; a '$ref' with another prefix or a missing
\* segment ends the construction in an error, no root is returned, and no
\* finished graph holds such a '$ref'.
RefResolvedFromRoot ==
    /\ \A j \in Expanded : \A ref \in RefsOf(stack[j].obj) :
         /\ ValidRef(ref)
         /\ \E k \in DOMAIN stack[j].kids :
              hash_schema(nodes[stack[j].kids[k]].schema)
                = hash_schema(Lookup(doc, Tail(ref.s)))
         /\ ClassesOf(stack[j].obj) = <<"RefValidator">>
              => Len(stack[j].kids) = 1
    /\ pc = "built" => \A n \in DOMAIN nodes : \A ref \in RefsOf(n) : ValidRef(ref)
    /\ (\E n \in DOMAIN nodes : \E ref \in RefsOf(n) : ~ValidRef(ref))
         /\ pc \notin {"new", "crawl"}
         => pc = "error" /\ exc \in {"ValueError", "KeyError"} /\ last = NoCall
    /\ pc = "error" => stack = <<>> /\ last = NoCall

\* the children of a node below the root that holds a '$ref' have been read:
\* its one child is the fragment found from the root, which the node that
\* holds the '$ref' does not contain
NestedRefResolved ==
    \E j \in Expanded :
      /\ stack[j].obj # 1
      /\ ClassesOf(stack[j].obj) = <<"RefValidator">>
      /\ \A ref \in RefsOf(stack[j].obj) : ~Present(nodes[stack[j].obj].schema, Tail(ref.s))
      /\ Len(stack[j].kids) = 1

\* node n is the value of the registry at the hash of its fragment
Registered(n) ==
    /\ hash_schema(nodes[n].schema) \in DOMAIN registry
    /\ registry[hash_schema(nodes[n].schema)] = n

\* every node is in the registry, under the hash of its fragment and under
\* no other key; the nodes crawl holds are nodes of the registry; and when
\* Schema(doc) has returned every child fragment of every node has its node
RegistryClosed ==
    pc \in {"crawl", "built"} =>
      /\ \A n \in DOMAIN nodes : Registered(n)
      /\ Cardinality(DOMAIN registry) = Len(nodes)
      /\ Registered(1) /\ nodes[1].schema = doc
      /\ \A j \in DOMAIN stack :
           /\ stack[j].obj \in DOMAIN nodes
           /\ \A k \in DOMAIN stack[j].kids : stack[j].kids[k] \in DOMAIN nodes
      /\ pc = "built" /\ ~Validated =>
           \A n \in DOMAIN nodes :
             /\ ChildFragments(n).ok
             /\ \A k \in DOMAIN ChildFragments(n).val :
                  hash_schema(ChildFragments(n).val[k]) \in DOMAIN registry

\* a step of the construction: a key of the registry keeps its node; the
\* node whose children crawl reads in this step was registered before the
\* step; and a node registered in this step has not had its children read
ExpansionOfRegistered ==
    pc \in {"new", "crawl"} =>
      /\ \A h \in DOMAIN registry :
           h \in DOMAIN registry' /\ registry'[h] = registry[h]
      /\ pc = "crawl" /\ Top.j = 0 /\ stack' # stack =>
           Top.obj \in DOMAIN nodes /\ Registered(Top.obj)
      /\ \A h \in (DOMAIN registry') \ DOMAIN registry :
           \A j \in DOMAIN stack' :
             stack'[j].obj = registry'[h] => stack'[j].j = 0

\* C13: during the construction of the root every node found through the
\* children of the validators is put in the registry once, under the hash
\* of its fragment, the root included; a node is put in the registry in a
\* step before the step in which crawl reads its children; and when the
\* construction ends every child fragment of every registered node is
\* registered.
RegisteredBeforeExpanded == []RegistryClosed /\ [][ExpansionOfRegistered]_vars

\* the construction has ended with a node, reached through a reference back
\* to a fragment met before, that has two parents
SharedNodeRegisteredOnce ==
    /\ pc = "built"
    /\ \E n \in DOMAIN nodes : Len(nodes[n].parents) >= 2 /\ n # 1
    /\ \E n \in DOMAIN nodes : 1 \in Range(ChildNodes(Graph(nodes, registry), n,
                                              ChildFragments(n)).objs)

\* C14: once Schema(doc) has returned, no call of validate, passing or
\* failing, and no read of the children property, on any node of the graph,
\* changes the graph: the registry keeps its keys and their nodes, and the
\* fragment, the parents list and the validators list of every node stay
\* what they were, entry for entry.
GraphFrozenOnceBuilt ==
    [][pc = "built" => /\ registry' = registry
                       /\ nodes' = nodes
                       /\ pc' = "built"]_vars

\* the children property has been read on a node of the finished graph and
\* gave a node that has two parents, this node among them
ChildrenReadOnBuiltGraph ==
    /\ pc = "built"
    /\ last.op = "children"
    /\ last.result = "ok"
    /\ \E k \in DOMAIN last.objs :
         /\ Len(nodes[last.objs[k]].parents) >= 2
         /\ last.node \in Range(nodes[last.objs[k]].parents)

====
